---- MODULE Spec2Model ----
(***************************************************************************)
(* analyze-keyframes: the concurrent fingerprinting pipeline of            *)
(* analyze-keyframes.cpp.  One producer (main) decodes keyframes and       *)
(* pushes them on unprocessedFrames; threadCount worker threads pop        *)
(* frames, analyze them and insert a FrameAnalysis into the ordered set    *)
(* processedFrameData; main sets processingComplete at end of stream,      *)
(* joins the workers and writes the set to the CSV file.                   *)
(***************************************************************************)
EXTENDS Integers, Sequences, FiniteSets, TLC

(* ---- bounds of the model ---- *)

\* Number of worker threads (thread::hardware_concurrency() of the machine).
threadCount == 2

\* Longest stream the decoder delivers, in frames.
MaxFrames == 4

\* Most frames avcodec_receive_frame hands out for one packet.
MaxFramesPerPacket == 2

\* Most frames of a stream that repeat the frame number of the frame before.
MaxDuplicates == 1

\* Most frames of a run for which av_image_alloc fails.
MaxAllocFailures == 1

\* Capacity of the frame queue.  The program sets 100 (analyze-keyframes.cpp
\* line 34); the model scales it down, every statement below is written
\* against the name and not the value.
MaxUnprocessedFrameCount == 3

\* Lines 31-32: the grid of cells.
VerticalCellCount == 3
HorizontalCellCount == 3

Workers == 1..threadCount

NoFrame == [id |-> 0, frameNumber |-> -1]

VARIABLES
    processingComplete,     \* bool processingComplete
    unprocessedFrames,      \* list<AVFramePtr> unprocessedFrames
    processedFrameData,     \* set<unique_ptr<FrameAnalysis>, comparator>
    mainPc,                 \* position of main()
    unprocessedFrameCount,  \* main's local copy of the queue size
    packetFrames,           \* frames received from the packet being decoded
    decoded,                \* frames the decoder has delivered, in order
    workerPc,               \* position of each workerThread()
    frame,                  \* each worker's local AVFramePtr frame
    errors,                 \* "Error: ..." lines written by logging()
    csv,                    \* rows of frame-analysis.csv
    exitStatus,             \* exit status of the process
    width,                  \* videoCodecParameters->width, frame->width
    height,                 \* videoCodecParameters->height, frame->height
    popsAfterComplete,      \* per worker, frames popped since line 218 ran
    mutexOwner,             \* the thread that holds each mutex
    stage,                  \* per thread, how far it is inside its position
    pixels,                 \* median(): the vector v
    medianPc,               \* position inside median()
    medianResult,           \* twice the float median() returns
    gridPc,                 \* position inside analyzeGrayscaleFrame()
    y,                      \* loop counter of the row bands
    x,                      \* loop counter of the column bands
    remainingHeight,        \* int remainingHeight
    remainingWidth,         \* int remainingWidth
    yBand,                  \* yOffset and yPixels of the current row band
    cells                   \* the cells handed to cellMedian, in order

\* The mutexes and the position of a thread between two lock operations.
lockVars == <<mutexOwner, stage>>

\* The local state of median().
medianVars == <<pixels, medianPc, medianResult>>

\* The local state of analyzeGrayscaleFrame().
gridVars == <<gridPc, y, x, remainingHeight, remainingWidth, yBand, cells>>

auxVars == <<lockVars, medianVars, gridVars>>

\* The state of the pipeline: the globals and the locals of the threads.
pipelineVars == <<processingComplete, unprocessedFrames, processedFrameData,
                  mainPc, unprocessedFrameCount, packetFrames, decoded,
                  workerPc, frame, errors, csv, exitStatus,
                  popsAfterComplete>>

\* The threads: main is 0, the workers are 1..threadCount.
MainThread == 0
NoThread == -1
Mutexes == {"unprocessedFramesMutex", "processedFrameDataMutex", "loggingMutex"}

vars == <<processingComplete, unprocessedFrames, processedFrameData, mainPc,
          unprocessedFrameCount, packetFrames, decoded, workerPc, frame,
          errors, csv, exitStatus, width, height, popsAfterComplete, auxVars>>

(* ---- the ordered set processedFrameData ---- *)

\* The set's ordering: a->frameNumber < b->frameNumber.
comparator(a, b) == a.frameNumber < b.frameNumber

\* std::set's notion of "same key": neither orders before the other.
Equivalent(a, b) == ~comparator(a, b) /\ ~comparator(b, a)

\* A variant of insert that keeps equivalent keys (a multiset).
SetInsertKeepingDuplicates(s, a) ==
    LET below == {i \in 1..Len(s) : ~comparator(a, s[i])}
        n == Cardinality(below)
    IN  SubSeq(s, 1, n) \o <<a>> \o SubSeq(s, n + 1, Len(s))

\* std::set::insert: an element with an equivalent key already present
\* makes the insert a no-op; otherwise the element goes to its sorted place.
SetInsert(s, a) ==
    IF \E i \in 1..Len(s) : Equivalent(s[i], a)
    THEN s
    ELSE LET below == {i \in 1..Len(s) : comparator(s[i], a)}
             n == Cardinality(below)
         IN  SubSeq(s, 1, n) \o <<a>> \o SubSeq(s, n + 1, Len(s))

\* The FrameAnalysis analyzeGrayscaleFrame builds for a frame: timestamp from
\* the frame's own timestamp, frameNumber from coded_picture_number.
Analysis(f) == [timestamp |-> f.id, frameNumber |-> f.frameNumber]

(* ---- initial state ---- *)

\* Lines 73, 76, 237: no mutex is held.
LocksFree ==
    /\ mutexOwner = [m \in Mutexes |-> NoThread]
    /\ stage = [t \in {MainThread} \cup Workers |-> "start"]

\* No call of median() is under way.
MedianIdle ==
    /\ pixels = <<>>
    /\ medianPc = "idle"
    /\ medianResult = 0

\* No call of analyzeGrayscaleFrame() is being followed band by band.
GridIdle ==
    /\ gridPc = "idle"
    /\ y = 0
    /\ x = 0
    /\ remainingHeight = 0
    /\ remainingWidth = 0
    /\ yBand = [offset |-> 0, pixels |-> 0]
    /\ cells = <<>>

\* The dimensions a video stream may announce: none, one short of the grid,
\* and the smallest the program accepts.
StreamWidths == {0, HorizontalCellCount - 1, HorizontalCellCount}
StreamHeights == {0, VerticalCellCount - 1, VerticalCellCount}

\* Lines 71-78: the globals before main has done anything.
PipelineStart ==
    /\ processingComplete = FALSE
    /\ unprocessedFrames = <<>>
    /\ processedFrameData = <<>>
    /\ mainPc = "start"
    /\ unprocessedFrameCount = 0
    /\ packetFrames = 0
    /\ decoded = <<>>
    /\ workerPc = [w \in Workers |-> "notStarted"]
    /\ frame = [w \in Workers |-> NoFrame]
    /\ errors = {}
    /\ csv = <<>>
    /\ exitStatus = "running"
    /\ popsAfterComplete = [w \in Workers |-> 0]

Init ==
    /\ PipelineStart
    /\ width \in StreamWidths
    /\ height \in StreamHeights
    /\ LocksFree
    /\ MedianIdle
    /\ GridIdle

(* ---- main(): start-up ---- *)

\* A dimension check that looks at the width only.
DimensionsTooSmallWidthOnly ==
    width <= 0 \/ width < HorizontalCellCount

\* Lines 153-154: the condition under which main refuses the stream.
DimensionsTooSmall ==
    \/ width <= 0 \/ width < HorizontalCellCount
    \/ height <= 0 \/ height < VerticalCellCount

\* Lines 151-157: the stream is smaller than the grid, main returns -1.
MainDimensionsError ==
    /\ mainPc = "start"
    /\ DimensionsTooSmall
    /\ errors' = errors \cup {<<"dimensions", 0>>}
    /\ mainPc' = "return"
    /\ UNCHANGED <<width, height, popsAfterComplete, auxVars>>
    /\ UNCHANGED <<processingComplete, unprocessedFrames, processedFrameData,
                   unprocessedFrameCount, packetFrames, decoded, workerPc,
                   frame, csv, exitStatus>>

\* Lines 159-170: the codec context cannot be set up, main returns -1.
MainCodecError ==
    /\ mainPc = "start"
    /\ ~DimensionsTooSmall
    /\ errors' = errors \cup {<<"codec", 0>>}
    /\ mainPc' = "return"
    /\ UNCHANGED <<width, height, popsAfterComplete, auxVars>>
    /\ UNCHANGED <<processingComplete, unprocessedFrames, processedFrameData,
                   unprocessedFrameCount, packetFrames, decoded, workerPc,
                   frame, csv, exitStatus>>

\* Lines 175-182: the old CSV file is removed and the worker threads are
\* started; a thread may run as soon as it exists.
MainStartWorkers ==
    /\ mainPc = "start"
    /\ ~DimensionsTooSmall
    /\ csv' = <<>>
    /\ workerPc' = [w \in Workers |-> "pop"]
    /\ mainPc' = "check"
    /\ UNCHANGED <<width, height, popsAfterComplete, auxVars>>
    /\ UNCHANGED <<processingComplete, unprocessedFrames, processedFrameData,
                   unprocessedFrameCount, packetFrames, decoded, frame,
                   errors, exitStatus>>

(* ---- main(): the producer loop ---- *)

\* Lines 185-194: read the queue size under the mutex, sleep when full.
MainCheckQueue ==
    /\ mainPc = "check"
    /\ unprocessedFrameCount' = Len(unprocessedFrames)
    /\ mainPc' = IF Len(unprocessedFrames) >= MaxUnprocessedFrameCount
                 THEN "sleep" ELSE "read"
    /\ UNCHANGED <<width, height, popsAfterComplete, auxVars>>
    /\ UNCHANGED <<processingComplete, unprocessedFrames, processedFrameData,
                   packetFrames, decoded, workerPc, frame, errors, csv,
                   exitStatus>>

\* A sleep that is never followed by another look at the queue.
MainSleepForever ==
    /\ mainPc = "sleep"
    /\ mainPc' = "sleep"
    /\ UNCHANGED <<width, height, popsAfterComplete, auxVars>>
    /\ UNCHANGED <<processingComplete, unprocessedFrames, processedFrameData,
                   unprocessedFrameCount, packetFrames, decoded, workerPc,
                   frame, errors, csv, exitStatus>>

\* Lines 191-193: sleep_for(10ms); continue.
MainSleep ==
    /\ mainPc = "sleep"
    /\ mainPc' = "check"
    /\ UNCHANGED <<width, height, popsAfterComplete, auxVars>>
    /\ UNCHANGED <<processingComplete, unprocessedFrames, processedFrameData,
                   packetFrames, decoded, workerPc,
                   frame, errors, csv, exitStatus>>
    /\ unprocessedFrameCount' = 0

\* Lines 198-201: av_read_frame returns AVERROR_EOF, the loop breaks.
MainReadEOF ==
    /\ mainPc = "read"
    /\ mainPc' = "setComplete"
    /\ UNCHANGED <<width, height, popsAfterComplete, auxVars>>
    /\ UNCHANGED <<processingComplete, unprocessedFrames, processedFrameData,
                   packetFrames, decoded, workerPc,
                   frame, errors, csv, exitStatus>>
    /\ unprocessedFrameCount' = 0

\* Lines 203-206: av_read_frame fails, main returns -1.
MainReadError ==
    /\ mainPc = "read"
    /\ errors' = errors \cup {<<"read", 0>>}
    /\ mainPc' = "return"
    /\ UNCHANGED <<width, height, popsAfterComplete, auxVars>>
    /\ UNCHANGED <<processingComplete, unprocessedFrames, processedFrameData,
                   packetFrames, decoded, workerPc,
                   frame, csv, exitStatus>>
    /\ unprocessedFrameCount' = 0

\* Lines 208-209: a packet of another stream is skipped.
MainSkipPacket ==
    /\ mainPc = "read"
    /\ mainPc' = "check"
    /\ UNCHANGED <<width, height, popsAfterComplete, auxVars>>
    /\ UNCHANGED <<processingComplete, unprocessedFrames, processedFrameData,
                   packetFrames, decoded, workerPc,
                   frame, errors, csv, exitStatus>>
    /\ unprocessedFrameCount' = 0

\* Lines 211, 251: a video packet is sent to the decoder.
MainSendPacket ==
    /\ mainPc = "read"
    /\ Len(decoded) < MaxFrames
    /\ packetFrames' = 0
    /\ mainPc' = "receive"
    /\ UNCHANGED <<width, height, popsAfterComplete, auxVars>>
    /\ UNCHANGED <<processingComplete, unprocessedFrames, processedFrameData,
                   decoded, workerPc, frame, errors,
                   csv, exitStatus>>
    /\ unprocessedFrameCount' = 0

\* Lines 252-255, 211-214: avcodec_send_packet fails.
MainSendError ==
    /\ mainPc = "read"
    /\ errors' = errors \cup {<<"packet", 0>>}
    /\ mainPc' = "return"
    /\ UNCHANGED <<width, height, popsAfterComplete, auxVars>>
    /\ UNCHANGED <<processingComplete, unprocessedFrames, processedFrameData,
                   packetFrames, decoded, workerPc,
                   frame, csv, exitStatus>>
    /\ unprocessedFrameCount' = 0

\* The frame numbers the decoder may give the next frame: the one after the
\* last, or the last one again (coded_picture_number is not unique).
NextFrameNumbers ==
    IF decoded = <<>> THEN {0}
    ELSE LET last == decoded[Len(decoded)].frameNumber
             duplicates == Len(decoded) - 1 - last
         IN  IF duplicates < MaxDuplicates THEN {last, last + 1}
             ELSE {last + 1}

\* Lines 260-271: the decoder yields a frame, pushed at the back of the
\* queue under the mutex; the loop goes on to the next frame.
MainPushFrame ==
    /\ mainPc = "receive"
    /\ packetFrames < MaxFramesPerPacket
    /\ Len(decoded) < MaxFrames
    /\ \E n \in NextFrameNumbers :
         LET f == [id |-> Len(decoded) + 1, frameNumber |-> n]
         IN  /\ decoded' = Append(decoded, f)
             /\ unprocessedFrames' = Append(unprocessedFrames, f)
    /\ packetFrames' = packetFrames + 1
    /\ UNCHANGED <<width, height, popsAfterComplete, auxVars>>
    /\ UNCHANGED <<processingComplete, processedFrameData, mainPc,
                   unprocessedFrameCount, workerPc, frame, errors, csv,
                   exitStatus>>

\* Lines 262-263: EAGAIN or EOF from the decoder, processPacket returns true.
MainPacketDone ==
    /\ mainPc = "receive"
    /\ mainPc' = "check"
    /\ UNCHANGED <<width, height, popsAfterComplete, auxVars>>
    /\ UNCHANGED <<processingComplete, unprocessedFrames, processedFrameData,
                   unprocessedFrameCount, decoded, workerPc,
                   frame, errors, csv, exitStatus>>
    /\ packetFrames' = 0

\* Lines 265-268, 211-214: avcodec_receive_frame fails.
MainReceiveError ==
    /\ mainPc = "receive"
    /\ errors' = errors \cup {<<"packet", 0>>}
    /\ mainPc' = "return"
    /\ UNCHANGED <<width, height, popsAfterComplete, auxVars>>
    /\ UNCHANGED <<processingComplete, unprocessedFrames, processedFrameData,
                   unprocessedFrameCount, decoded, workerPc,
                   frame, csv, exitStatus>>
    /\ packetFrames' = 0

\* A flag that is set with the producer loop still going round.
MainSetCompleteInLoop ==
    /\ mainPc = "setComplete"
    /\ processingComplete' = TRUE
    /\ mainPc' = "check"
    /\ UNCHANGED <<width, height, popsAfterComplete, auxVars>>
    /\ UNCHANGED <<unprocessedFrames, processedFrameData,
                   unprocessedFrameCount, packetFrames, decoded, workerPc,
                   frame, errors, csv, exitStatus>>

\* Line 218: processingComplete = true.
MainSetComplete ==
    /\ mainPc = "setComplete"
    /\ processingComplete' = TRUE
    /\ mainPc' = "join"
    /\ UNCHANGED <<width, height, popsAfterComplete, auxVars>>
    /\ UNCHANGED <<unprocessedFrames, processedFrameData,
                   unprocessedFrameCount, packetFrames, decoded, workerPc,
                   frame, errors, csv, exitStatus>>

\* Lines 219-220: every thread is joined.
MainJoin ==
    /\ mainPc = "join"
    /\ \A w \in Workers : workerPc[w] = "done"
    /\ mainPc' = "output"
    /\ UNCHANGED <<width, height, popsAfterComplete, auxVars>>
    /\ UNCHANGED <<processingComplete, unprocessedFrames, processedFrameData,
                   unprocessedFrameCount, packetFrames, decoded, workerPc,
                   frame, errors, csv, exitStatus>>

\* The rows outputFrameAnalysis writes: one per element, in set order.
Rows(s) == [i \in 1..Len(s) |-> s[i].timestamp]

\* Lines 223-227, 363-376: the CSV is written, main returns 0.
MainOutput ==
    /\ mainPc = "output"
    /\ csv' = csv \o Rows(processedFrameData)
    /\ mainPc' = "done"
    /\ exitStatus' = "zero"
    /\ UNCHANGED <<width, height, popsAfterComplete, auxVars>>
    /\ UNCHANGED <<processingComplete, unprocessedFrames, processedFrameData,
                   unprocessedFrameCount, packetFrames, decoded, workerPc,
                   frame, errors>>

\* Lines 363-367, 223-227: the CSV file cannot be opened; the result of
\* outputFrameAnalysis is not looked at and main returns 0.
MainOutputFail ==
    /\ mainPc = "output"
    /\ errors' = errors \cup {<<"csv", 0>>}
    /\ mainPc' = "done"
    /\ exitStatus' = "zero"
    /\ UNCHANGED <<width, height, popsAfterComplete, auxVars>>
    /\ UNCHANGED <<processingComplete, unprocessedFrames, processedFrameData,
                   unprocessedFrameCount, packetFrames, decoded, workerPc,
                   frame, csv>>

\* An abort that flushes the fingerprints gathered so far.
MainAbortFlushing ==
    /\ mainPc = "return"
    /\ mainPc' = "aborted"
    /\ exitStatus' = "nonzero"
    /\ csv' = csv \o Rows(processedFrameData)
    /\ UNCHANGED <<width, height, popsAfterComplete, auxVars>>
    /\ UNCHANGED <<processingComplete, unprocessedFrames, processedFrameData,
                   unprocessedFrameCount, packetFrames, decoded, workerPc,
                   frame, errors>>

\* return -1 out of the loop: the process ends with the workers running.
MainAbort ==
    /\ mainPc = "return"
    /\ mainPc' = "aborted"
    /\ exitStatus' = "nonzero"
    /\ UNCHANGED <<width, height, popsAfterComplete, auxVars>>
    /\ UNCHANGED <<processingComplete, unprocessedFrames, processedFrameData,
                   unprocessedFrameCount, packetFrames, decoded, workerPc,
                   frame, errors, csv>>

(* ---- workerThread() ---- *)

\* The process is alive: threads run until main has returned.
Alive == exitStatus = "running"

\* The count of the frames a worker took off the queue after main stored
\* true in processingComplete.
PopCounted(w) ==
    IF processingComplete
    THEN [popsAfterComplete EXCEPT ![w] = @ + 1]
    ELSE popsAfterComplete

\* A pop at the wrong end: back() and pop_back().
WorkerPopBack(w) ==
    /\ Alive
    /\ workerPc[w] = "pop"
    /\ IF Len(unprocessedFrames) > 0
       THEN /\ frame' = [frame EXCEPT
                           ![w] = unprocessedFrames[Len(unprocessedFrames)]]
            /\ unprocessedFrames' =
                  SubSeq(unprocessedFrames, 1, Len(unprocessedFrames) - 1)
            /\ workerPc' = [workerPc EXCEPT ![w] = "process"]
            /\ popsAfterComplete' = PopCounted(w)
       ELSE /\ frame' = [frame EXCEPT ![w] = NoFrame]
            /\ unprocessedFrames' = unprocessedFrames
            /\ workerPc' = [workerPc EXCEPT ![w] = "check"]
            /\ popsAfterComplete' = popsAfterComplete
    /\ UNCHANGED <<width, height, auxVars>>
    /\ UNCHANGED <<processingComplete, processedFrameData, mainPc,
                   unprocessedFrameCount, packetFrames, decoded, errors, csv,
                   exitStatus>>

\* A pop that takes the front frame but leaves it on the list.
WorkerPopLeavingFront(w) ==
    /\ Alive
    /\ workerPc[w] = "pop"
    /\ IF Len(unprocessedFrames) > 0
       THEN /\ frame' = [frame EXCEPT ![w] = Head(unprocessedFrames)]
            /\ workerPc' = [workerPc EXCEPT ![w] = "process"]
            /\ popsAfterComplete' = PopCounted(w)
       ELSE /\ frame' = [frame EXCEPT ![w] = NoFrame]
            /\ workerPc' = [workerPc EXCEPT ![w] = "check"]
            /\ popsAfterComplete' = popsAfterComplete
    /\ UNCHANGED <<width, height, auxVars>>
    /\ UNCHANGED <<processingComplete, unprocessedFrames, processedFrameData,
                   mainPc, unprocessedFrameCount, packetFrames, decoded,
                   errors, csv, exitStatus>>

\* Lines 280-289: under the mutex, take the front frame if there is one.
WorkerPop(w) ==
    /\ Alive
    /\ workerPc[w] = "pop"
    /\ IF Len(unprocessedFrames) > 0
       THEN /\ frame' = [frame EXCEPT ![w] = Head(unprocessedFrames)]
            /\ unprocessedFrames' = Tail(unprocessedFrames)
            /\ workerPc' = [workerPc EXCEPT ![w] = "process"]
            /\ popsAfterComplete' = PopCounted(w)
       ELSE /\ frame' = [frame EXCEPT ![w] = NoFrame]
            /\ unprocessedFrames' = unprocessedFrames
            /\ workerPc' = [workerPc EXCEPT ![w] = "check"]
            /\ popsAfterComplete' = popsAfterComplete
    /\ UNCHANGED <<width, height, auxVars>>
    /\ UNCHANGED <<processingComplete, processedFrameData, mainPc,
                   unprocessedFrameCount, packetFrames, decoded, errors, csv,
                   exitStatus>>

\* Lines 298-329, 379-407: processKeyframe converts the frame, and
\* analyzeGrayscaleFrame inserts its FrameAnalysis under the mutex.
WorkerProcessKeyframe(w) ==
    /\ Alive
    /\ workerPc[w] = "process"
    /\ processedFrameData' = SetInsert(processedFrameData, Analysis(frame[w]))
    /\ workerPc' = [workerPc EXCEPT ![w] = "check"]
    /\ UNCHANGED <<width, height, popsAfterComplete, auxVars>>
    /\ UNCHANGED <<processingComplete, unprocessedFrames, mainPc,
                   unprocessedFrameCount, packetFrames, decoded, errors, csv,
                   exitStatus>>
    /\ frame' = [frame EXCEPT ![w] = NoFrame]

\* An allocation failure that ends the worker thread.
WorkerAllocFailEndsThread(w) ==
    /\ Alive
    /\ workerPc[w] = "process"
    /\ Cardinality({e \in errors : e[1] = "alloc"}) < MaxAllocFailures
    /\ errors' = errors \cup {<<"alloc", frame[w].id>>}
    /\ workerPc' = [workerPc EXCEPT ![w] = "done"]
    /\ UNCHANGED <<width, height, popsAfterComplete, auxVars>>
    /\ UNCHANGED <<processingComplete, unprocessedFrames, processedFrameData,
                   mainPc, unprocessedFrameCount, packetFrames, decoded,
                   frame, csv, exitStatus>>

\* Lines 305-309: av_image_alloc fails, processKeyframe logs and returns.
WorkerAllocFail(w) ==
    /\ Alive
    /\ workerPc[w] = "process"
    /\ Cardinality({e \in errors : e[1] = "alloc"}) < MaxAllocFailures
    /\ errors' = errors \cup {<<"alloc", frame[w].id>>}
    /\ workerPc' = [workerPc EXCEPT ![w] = "check"]
    /\ UNCHANGED <<width, height, popsAfterComplete, auxVars>>
    /\ UNCHANGED <<processingComplete, unprocessedFrames, processedFrameData,
                   mainPc, unprocessedFrameCount, packetFrames, decoded,
                   csv, exitStatus>>
    /\ frame' = [frame EXCEPT ![w] = NoFrame]

\* Lines 292-293: processingComplete is read as true, the thread returns.
WorkerExit(w) ==
    /\ Alive
    /\ workerPc[w] = "check"
    /\ processingComplete
    /\ workerPc' = [workerPc EXCEPT ![w] = "done"]
    /\ frame' = [frame EXCEPT ![w] = NoFrame]
    /\ UNCHANGED <<width, height, popsAfterComplete, auxVars>>
    /\ UNCHANGED <<processingComplete, unprocessedFrames, processedFrameData,
                   mainPc, unprocessedFrameCount, packetFrames, decoded,
                   errors, csv, exitStatus>>

\* A loop that goes round whatever the flag says.
WorkerLoopAlways(w) ==
    /\ Alive
    /\ workerPc[w] = "check"
    /\ workerPc' = [workerPc EXCEPT ![w] = "pop"]
    /\ frame' = [frame EXCEPT ![w] = NoFrame]
    /\ UNCHANGED <<width, height, popsAfterComplete, auxVars>>
    /\ UNCHANGED <<processingComplete, unprocessedFrames, processedFrameData,
                   mainPc, unprocessedFrameCount, packetFrames, decoded,
                   errors, csv, exitStatus>>

\* A loop that goes round while frames are queued, flag or no flag.
WorkerLoopWhileQueued(w) ==
    /\ Alive
    /\ workerPc[w] = "check"
    /\ ~processingComplete \/ unprocessedFrames # <<>>
    /\ workerPc' = [workerPc EXCEPT ![w] = "pop"]
    /\ frame' = [frame EXCEPT ![w] = NoFrame]
    /\ UNCHANGED <<width, height, popsAfterComplete, auxVars>>
    /\ UNCHANGED <<processingComplete, unprocessedFrames, processedFrameData,
                   mainPc, unprocessedFrameCount, packetFrames, decoded,
                   errors, csv, exitStatus>>

\* Lines 292-294: processingComplete is read as false, the loop goes round.
\* The flag is a plain bool that main writes without synchronization: the
\* read returns the value before or after main's store, which is the order
\* of this step and MainSetComplete.
WorkerLoop(w) ==
    /\ Alive
    /\ workerPc[w] = "check"
    /\ ~processingComplete
    /\ workerPc' = [workerPc EXCEPT ![w] = "pop"]
    /\ frame' = [frame EXCEPT ![w] = NoFrame]
    /\ UNCHANGED <<width, height, popsAfterComplete, auxVars>>
    /\ UNCHANGED <<processingComplete, unprocessedFrames, processedFrameData,
                   mainPc, unprocessedFrameCount, packetFrames, decoded,
                   errors, csv, exitStatus>>

(* ---- specifications ---- *)

Main ==
    \/ MainDimensionsError
    \/ MainCodecError
    \/ MainStartWorkers
    \/ MainCheckQueue
    \/ MainSleep
    \/ MainReadEOF
    \/ MainReadError
    \/ MainSkipPacket
    \/ MainSendPacket
    \/ MainSendError
    \/ MainPushFrame
    \/ MainPacketDone
    \/ MainReceiveError
    \/ MainSetComplete
    \/ MainJoin
    \/ MainOutput
    \/ MainOutputFail
    \/ MainAbort

Worker(w) ==
    \/ WorkerPop(w)
    \/ WorkerProcessKeyframe(w)
    \/ WorkerAllocFail(w)
    \/ WorkerExit(w)
    \/ WorkerLoop(w)

Next == Main \/ \E w \in Workers : Worker(w)

Spec == Init /\ [][Next]_vars

FairSpec ==
    /\ Spec
    /\ WF_vars(Main)
    /\ \A w \in Workers : WF_vars(Worker(w))

(* ---- median() ---- *)

\* Longest vector given to median() and largest pixel value in it.
MaxPixelCount == 4
MaxPixelValue == 3

\* v[i] of a vector, indices from 0 as in the program.
At(s, i) == s[i + 1]

\* Line 333: int middle = v.size() / 2.
Middle(n) == n \div 2

\* Line 334: the arrangements nth_element(begin, begin + k, end) may leave:
\* a permutation with no element before index k greater than the one at k
\* and none after it smaller.
NthElement(s, k) ==
    {t \in {[i \in 1..Len(s) |-> s[p[i]]] : p \in Permutations(1..Len(s))} :
        /\ \A i \in 0..(k - 1) : At(t, i) <= At(t, k)
        /\ \A i \in (k + 1)..(Len(s) - 1) : At(t, i) >= At(t, k)}

\* std::max_element(begin + first, begin + last): the index of the first
\* largest element of [first, last), and last when the range is empty.
MaxElement(s, first, last) ==
    IF first = last THEN last
    ELSE CHOOSE i \in first..(last - 1) :
           /\ \A j \in first..(last - 1) : At(s, j) <= At(s, i)
           /\ \A j \in first..(i - 1) : At(s, j) < At(s, i)

\* The vectors of pixels a cell may hold.
PixelVectors ==
    UNION {[1..n -> 0..MaxPixelValue] : n \in 1..MaxPixelCount}

MedianInit ==
    /\ PipelineStart
    /\ width = HorizontalCellCount
    /\ height = VerticalCellCount
    /\ LocksFree
    /\ GridIdle
    /\ pixels \in PixelVectors
    /\ medianPc = "start"
    /\ medianResult = 0

\* Lines 333-334: nth_element rearranges v around the middle.
MedianSelect ==
    /\ medianPc = "start"
    /\ pixels' \in NthElement(pixels, Middle(Len(pixels)))
    /\ medianPc' = "selected"
    /\ UNCHANGED <<medianResult, pipelineVars, width, height, lockVars,
                   gridVars>>

\* Lines 335-339: an odd number of items, the middle element is returned.
MedianReturnOdd ==
    /\ medianPc = "selected"
    /\ Len(pixels) % 2 = 1
    /\ medianResult' = 2 * At(pixels, Middle(Len(pixels)))
    /\ medianPc' = "done"
    /\ UNCHANGED <<pixels, pipelineVars, width, height, lockVars, gridVars>>

\* Lines 335, 345-346: an even number of items, the middle element is
\* averaged with *max_element(v.begin(), v.begin() + middle - 1).
MedianReturnEven ==
    /\ medianPc = "selected"
    /\ Len(pixels) % 2 = 0
    /\ LET middle == Middle(Len(pixels))
           iter == MaxElement(pixels, 0, middle - 1)
       IN  medianResult' = At(pixels, middle) + At(pixels, iter)
    /\ medianPc' = "done"
    /\ UNCHANGED <<pixels, pipelineVars, width, height, lockVars, gridVars>>

MedianNext == MedianSelect \/ MedianReturnOdd \/ MedianReturnEven

MedianSpec == MedianInit /\ [][MedianNext]_vars

(* ---- analyzeGrayscaleFrame(): the grid of cells ---- *)

\* Largest frame followed band by band.
MaxWidth == 7
MaxHeight == 7

\* A band size that divides by one band too many.
BandPixelsOneTooMany(remaining, count, index) ==
    remaining \div (count - index + 1)

\* Lines 391, 397: remaining / (count - index), the size of band index.
BandPixels(remaining, count, index) == remaining \div (count - index)

\* Lines 390, 396: total - remaining, where the band starts.
BandOffset(total, remaining) == total - remaining

\* A band that is not taken off what remains.
RemainingAfterKept(remaining, bandPixels) == remaining

\* Lines 392, 398: remaining -= pixels.
RemainingAfter(remaining, bandPixels) == remaining - bandPixels

GridInit ==
    /\ PipelineStart
    /\ LocksFree
    /\ MedianIdle
    /\ width \in HorizontalCellCount..MaxWidth
    /\ height \in VerticalCellCount..MaxHeight
    /\ gridPc = "row"
    /\ y = 0
    /\ x = 0
    /\ remainingHeight = height
    /\ remainingWidth = 0
    /\ yBand = [offset |-> 0, pixels |-> 0]
    /\ cells = <<>>

\* Lines 389-394: the next row band is cut off remainingHeight.
GridRowBand ==
    /\ gridPc = "row"
    /\ y < VerticalCellCount
    /\ LET yPixels == BandPixels(remainingHeight, VerticalCellCount, y)
       IN  /\ yBand' = [offset |-> BandOffset(height, remainingHeight),
                        pixels |-> yPixels]
           /\ remainingHeight' = RemainingAfter(remainingHeight, yPixels)
    /\ remainingWidth' = width
    /\ x' = 0
    /\ gridPc' = "column"
    /\ UNCHANGED <<y, cells, width, height, pipelineVars, lockVars,
                   medianVars>>

\* Lines 395-401: the next column band is cut off remainingWidth and the
\* cell is handed to cellMedian.
GridCell ==
    /\ gridPc = "column"
    /\ x < HorizontalCellCount
    /\ LET xPixels == BandPixels(remainingWidth, HorizontalCellCount, x)
       IN  /\ cells' = Append(cells,
                 [xOffset |-> BandOffset(width, remainingWidth),
                  xPixels |-> xPixels,
                  yOffset |-> yBand.offset,
                  yPixels |-> yBand.pixels])
           /\ remainingWidth' = RemainingAfter(remainingWidth, xPixels)
    /\ x' = x + 1
    /\ UNCHANGED <<gridPc, y, remainingHeight, yBand, width, height,
                   pipelineVars, lockVars, medianVars>>

\* Lines 389, 395: the column loop ends, on to the next row band.
GridRowEnd ==
    /\ gridPc = "column"
    /\ x = HorizontalCellCount
    /\ y' = y + 1
    /\ gridPc' = "row"
    /\ UNCHANGED <<x, remainingHeight, remainingWidth, yBand, cells, width,
                   height, pipelineVars, lockVars, medianVars>>

\* Lines 389, 403: the row loop ends, all cells are done.
GridDone ==
    /\ gridPc = "row"
    /\ y = VerticalCellCount
    /\ gridPc' = "done"
    /\ UNCHANGED <<y, x, remainingHeight, remainingWidth, yBand, cells,
                   width, height, pipelineVars, lockVars, medianVars>>

GridNext == GridRowBand \/ GridCell \/ GridRowEnd \/ GridDone

GridSpec == GridInit /\ [][GridNext]_vars

(* ---- the mutexes: the pipeline one lock operation at a time ---- *)

\* The frames the decoder delivers in the lock model.
MaxLockFrames == 3

Threads == {MainThread} \cup Workers

\* The mutexes a thread holds.
Held(t) == {m \in Mutexes : mutexOwner[m] = t}

\* Lines 191, 204, 212, 225, 253, 266, 300, 307, 365: the calls of logging(),
\* each with the position the caller goes to when logging() has returned.
AfterLog ==
    [fullLog       |-> "size",
     readErrLog    |-> "returnError",
     sendErrLog    |-> "packetErrLog",
     receiveErrLog |-> "packetErrLog",
     packetErrLog  |-> "returnError",
     csvErrLog     |-> "completeLog",
     completeLog   |-> "returnZero",
     keyframeLog   |-> "convert",
     allocErrLog   |-> "flag"]

LogStages == DOMAIN AfterLog

\* Lines 187, 240, 270, 282, 405: the mutex the lock_guard at a position is
\* constructed on.
Needs(p) ==
    IF p \in {"size", "push", "pop"} THEN "unprocessedFramesMutex"
    ELSE IF p = "insert" THEN "processedFrameDataMutex"
    ELSE IF p \in LogStages THEN "loggingMutex"
    ELSE "none"

\* The process has ended: main has returned, or std::terminate has run.
Ended == stage[MainThread] \in {"done", "aborted"}

\* What the lock model leaves alone: the positions and counters of the
\* coarse model, the lines logged, the stream dimensions.
lockUnused == <<mainPc, workerPc, unprocessedFrameCount, packetFrames, errors,
                exitStatus, width, height, popsAfterComplete, medianVars,
                gridVars>>

LockInit ==
    /\ PipelineStart
    /\ width = HorizontalCellCount
    /\ height = VerticalCellCount
    /\ LocksFree
    /\ MedianIdle
    /\ GridIdle

\* Lines 187, 240, 270, 282, 405: lock_guard's constructor returns when the
\* mutex is free, and the thread then owns it.
LockAcquire(t) ==
    /\ ~Ended
    /\ Needs(stage[t]) \in Mutexes
    /\ mutexOwner[Needs(stage[t])] = NoThread
    /\ mutexOwner' = [mutexOwner EXCEPT ![Needs(stage[t])] = t]
    /\ UNCHANGED <<stage, processingComplete, unprocessedFrames,
                   processedFrameData, decoded, frame, csv, lockUnused>>

\* Lines 238-247: logging() prints under loggingMutex and returns.
LockLogging(t) ==
    /\ ~Ended
    /\ stage[t] \in LogStages
    /\ mutexOwner["loggingMutex"] = t
    /\ mutexOwner' = [mutexOwner EXCEPT !["loggingMutex"] = NoThread]
    /\ stage' = [stage EXCEPT ![t] = AfterLog[stage[t]]]
    /\ UNCHANGED <<processingComplete, unprocessedFrames, processedFrameData,
                   decoded, frame, csv, lockUnused>>

\* Lines 175-182: the threads are created.
LockMainStart ==
    /\ stage[MainThread] = "start"
    /\ stage' = [t \in Threads |-> IF t = MainThread THEN "size" ELSE "pop"]
    /\ UNCHANGED <<mutexOwner, processingComplete, unprocessedFrames,
                   processedFrameData, decoded, frame, csv, lockUnused>>

\* Lines 186-190: the size is read and the lock_guard's block is left.
LockMainSize ==
    /\ stage[MainThread] = "size"
    /\ mutexOwner["unprocessedFramesMutex"] = MainThread
    /\ mutexOwner' = [mutexOwner EXCEPT !["unprocessedFramesMutex"] = NoThread]
    /\ stage' = [stage EXCEPT ![MainThread] =
                   IF Len(unprocessedFrames) >= MaxUnprocessedFrameCount
                   THEN "fullLog" ELSE "read"]
    /\ UNCHANGED <<processingComplete, unprocessedFrames, processedFrameData,
                   decoded, frame, csv, lockUnused>>

\* Lines 196-211: av_read_frame: end of stream, an error, a packet of
\* another stream, or a video packet.
LockMainRead ==
    /\ stage[MainThread] = "read"
    /\ \/ stage' = [stage EXCEPT ![MainThread] = "setComplete"]
       \/ stage' = [stage EXCEPT ![MainThread] = "readErrLog"]
       \/ stage' = [stage EXCEPT ![MainThread] = "size"]
       \/ /\ Len(decoded) < MaxLockFrames
          /\ stage' = [stage EXCEPT ![MainThread] = "send"]
    /\ UNCHANGED <<mutexOwner, processingComplete, unprocessedFrames,
                   processedFrameData, decoded, frame, csv, lockUnused>>

\* Lines 251-255: avcodec_send_packet succeeds or fails.
LockMainSend ==
    /\ stage[MainThread] = "send"
    /\ \/ stage' = [stage EXCEPT ![MainThread] = "receive"]
       \/ stage' = [stage EXCEPT ![MainThread] = "sendErrLog"]
    /\ UNCHANGED <<mutexOwner, processingComplete, unprocessedFrames,
                   processedFrameData, decoded, frame, csv, lockUnused>>

\* Lines 260-268: avcodec_receive_frame: a frame, no more frames, an error.
LockMainReceive ==
    /\ stage[MainThread] = "receive"
    /\ \/ /\ Len(decoded) < MaxLockFrames
          /\ stage' = [stage EXCEPT ![MainThread] = "push"]
       \/ stage' = [stage EXCEPT ![MainThread] = "size"]
       \/ stage' = [stage EXCEPT ![MainThread] = "receiveErrLog"]
    /\ UNCHANGED <<mutexOwner, processingComplete, unprocessedFrames,
                   processedFrameData, decoded, frame, csv, lockUnused>>

\* Lines 270-272: push_back under the mutex; the lock_guard goes out of
\* scope at the end of the loop body.
LockMainPush ==
    /\ stage[MainThread] = "push"
    /\ mutexOwner["unprocessedFramesMutex"] = MainThread
    /\ LET f == [id |-> Len(decoded) + 1, frameNumber |-> Len(decoded)]
       IN  /\ decoded' = Append(decoded, f)
           /\ unprocessedFrames' = Append(unprocessedFrames, f)
    /\ mutexOwner' = [mutexOwner EXCEPT !["unprocessedFramesMutex"] = NoThread]
    /\ stage' = [stage EXCEPT ![MainThread] = "receive"]
    /\ UNCHANGED <<processingComplete, processedFrameData, frame, csv,
                   lockUnused>>

\* Line 218.
LockMainSetComplete ==
    /\ stage[MainThread] = "setComplete"
    /\ processingComplete' = TRUE
    /\ stage' = [stage EXCEPT ![MainThread] = "join"]
    /\ UNCHANGED <<mutexOwner, unprocessedFrames, processedFrameData, decoded,
                   frame, csv, lockUnused>>

\* Lines 219-220: join() returns for every thread.
LockMainJoin ==
    /\ stage[MainThread] = "join"
    /\ \A w \in Workers : stage[w] = "returned"
    /\ stage' = [stage EXCEPT ![MainThread] = "output"]
    /\ UNCHANGED <<mutexOwner, processingComplete, unprocessedFrames,
                   processedFrameData, decoded, frame, csv, lockUnused>>

\* Lines 223, 361-377: outputFrameAnalysis reads processedFrameData without
\* a lock, or fails to open the file.
LockMainOutput ==
    /\ stage[MainThread] = "output"
    /\ \/ /\ csv' = csv \o Rows(processedFrameData)
          /\ stage' = [stage EXCEPT ![MainThread] = "completeLog"]
       \/ /\ csv' = csv
          /\ stage' = [stage EXCEPT ![MainThread] = "csvErrLog"]
    /\ UNCHANGED <<mutexOwner, processingComplete, unprocessedFrames,
                   processedFrameData, decoded, frame, lockUnused>>

\* Lines 205, 213, 227: main returns; with -1 the threads are still
\* joinable and the process is terminated.
LockMainReturn ==
    /\ stage[MainThread] \in {"returnError", "returnZero"}
    /\ stage' = [stage EXCEPT ![MainThread] =
                   IF stage[MainThread] = "returnZero" THEN "done"
                   ELSE "aborted"]
    /\ UNCHANGED <<mutexOwner, processingComplete, unprocessedFrames,
                   processedFrameData, decoded, frame, csv, lockUnused>>

\* A pop whose lock_guard lives to the end of the loop body.
LockWorkerPopKeepingLock(w) ==
    /\ ~Ended
    /\ stage[w] = "pop"
    /\ mutexOwner["unprocessedFramesMutex"] = w
    /\ IF Len(unprocessedFrames) > 0
       THEN /\ frame' = [frame EXCEPT ![w] = Head(unprocessedFrames)]
            /\ unprocessedFrames' = Tail(unprocessedFrames)
            /\ stage' = [stage EXCEPT ![w] = "keyframeLog"]
       ELSE /\ frame' = [frame EXCEPT ![w] = NoFrame]
            /\ unprocessedFrames' = unprocessedFrames
            /\ stage' = [stage EXCEPT ![w] = "flag"]
    /\ UNCHANGED <<mutexOwner, processingComplete, processedFrameData,
                   decoded, csv, lockUnused>>

\* Lines 281-287: the front frame is taken, if there is one, and the
\* lock_guard's block is left.
LockWorkerPop(w) ==
    /\ ~Ended
    /\ stage[w] = "pop"
    /\ mutexOwner["unprocessedFramesMutex"] = w
    /\ IF Len(unprocessedFrames) > 0
       THEN /\ frame' = [frame EXCEPT ![w] = Head(unprocessedFrames)]
            /\ unprocessedFrames' = Tail(unprocessedFrames)
            /\ stage' = [stage EXCEPT ![w] = "keyframeLog"]
       ELSE /\ frame' = [frame EXCEPT ![w] = NoFrame]
            /\ unprocessedFrames' = unprocessedFrames
            /\ stage' = [stage EXCEPT ![w] = "flag"]
    /\ mutexOwner' = [mutexOwner EXCEPT !["unprocessedFramesMutex"] = NoThread]
    /\ UNCHANGED <<processingComplete, processedFrameData, decoded, csv,
                   lockUnused>>

\* Lines 302-315: av_image_alloc fails, or the frame is converted to
\* grayscale.
LockWorkerConvert(w) ==
    /\ ~Ended
    /\ stage[w] = "convert"
    /\ \/ stage' = [stage EXCEPT ![w] = "allocErrLog"]
       \/ stage' = [stage EXCEPT ![w] = "extract"]
    /\ UNCHANGED <<mutexOwner, processingComplete, unprocessedFrames,
                   processedFrameData, decoded, frame, csv, lockUnused>>

\* Lines 381-403: the cell medians are computed.
LockWorkerExtract(w) ==
    /\ ~Ended
    /\ stage[w] = "extract"
    /\ stage' = [stage EXCEPT ![w] = "insert"]
    /\ UNCHANGED <<mutexOwner, processingComplete, unprocessedFrames,
                   processedFrameData, decoded, frame, csv, lockUnused>>

\* Lines 405-407: the insert under the mutex; the function returns.
LockWorkerInsert(w) ==
    /\ ~Ended
    /\ stage[w] = "insert"
    /\ mutexOwner["processedFrameDataMutex"] = w
    /\ processedFrameData' = SetInsert(processedFrameData, Analysis(frame[w]))
    /\ mutexOwner' = [mutexOwner EXCEPT !["processedFrameDataMutex"] = NoThread]
    /\ stage' = [stage EXCEPT ![w] = "flag"]
    /\ UNCHANGED <<processingComplete, unprocessedFrames, decoded, frame, csv,
                   lockUnused>>

\* Lines 292-294: the flag is read; the thread returns or goes round.
LockWorkerFlag(w) ==
    /\ ~Ended
    /\ stage[w] = "flag"
    /\ stage' = [stage EXCEPT ![w] =
                   IF processingComplete THEN "returned" ELSE "pop"]
    /\ frame' = [frame EXCEPT ![w] = NoFrame]
    /\ UNCHANGED <<mutexOwner, processingComplete, unprocessedFrames,
                   processedFrameData, decoded, csv, lockUnused>>

LockMain ==
    \/ LockAcquire(MainThread)
    \/ LockLogging(MainThread)
    \/ LockMainStart
    \/ LockMainSize
    \/ LockMainRead
    \/ LockMainSend
    \/ LockMainReceive
    \/ LockMainPush
    \/ LockMainSetComplete
    \/ LockMainJoin
    \/ LockMainOutput
    \/ LockMainReturn

LockWorker(w) ==
    \/ LockAcquire(w)
    \/ LockLogging(w)
    \/ LockWorkerPop(w)
    \/ LockWorkerConvert(w)
    \/ LockWorkerExtract(w)
    \/ LockWorkerInsert(w)
    \/ LockWorkerFlag(w)

LockNext == LockMain \/ \E w \in Workers : LockWorker(w)

LockSpec == LockInit /\ [][LockNext]_vars

(* ---- helpers of the properties ---- *)

\* The frame numbers of the stream are distinct and increasing.
DistinctIncreasing(s) ==
    \A i \in 1..Len(s) : \A j \in 1..Len(s) :
        i < j => s[i].frameNumber < s[j].frameNumber

\* No worker has hit a per-frame failure.
NoFrameFailure == \A e \in errors : e[1] # "alloc"

\* All workers have been joined: main is at or past outputFrameAnalysis.
Complete == mainPc \in {"output", "done"}

\* The frame ids on the queue.
QueuedIds == {unprocessedFrames[i].id : i \in 1..Len(unprocessedFrames)}

\* The set filled sequentially, frame after frame in decoding order.
RECURSIVE InsertAll(_, _)
InsertAll(s, fs) ==
    IF fs = <<>> THEN s
    ELSE InsertAll(SetInsert(s, Analysis(Head(fs))), Tail(fs))

(* ---- C1 ---- *)

\* C1: for a stream of N frames with distinct increasing frame numbers and
\* no per-frame failure, the set traversed after the joins holds exactly N
\* fingerprints, one per enqueued frame number, in strictly increasing order.
C1_ExactlyNInOrder ==
    (Complete /\ DistinctIncreasing(decoded) /\ NoFrameFailure) =>
        /\ Len(processedFrameData) = Len(decoded)
        /\ \A i \in 1..Len(processedFrameData) :
             processedFrameData[i].frameNumber = decoded[i].frameNumber

(* ---- C2 ---- *)

\* C2: a worker leaves its loop only in a state where processingComplete is
\* set and the frame queue is empty.
C2_ExitOnlyWhenDrained ==
    [][\A w \in Workers :
         (workerPc[w] # "done" /\ workerPc'[w] = "done") =>
             (processingComplete /\ unprocessedFrames = <<>>)]_vars

(* ---- C3 ---- *)

\* C3: when main has joined all workers the queue is empty and every frame
\* that was enqueued has a fingerprint in the set or a logged per-frame error.
C3_NoFrameDropped ==
    Complete =>
        /\ unprocessedFrames = <<>>
        /\ \A i \in 1..Len(decoded) :
             \/ \E k \in 1..Len(processedFrameData) :
                  processedFrameData[k].frameNumber = decoded[i].frameNumber
             \/ <<"alloc", decoded[i].id>> \in errors

(* ---- C4 ---- *)

\* C4: a frame is in one place only: the frames on the queue are distinct,
\* no two workers hold the same frame, no worker holds a frame that is still
\* queued, and a frame whose fingerprint is stored is not on the queue.
C4_SingleOwner ==
    /\ \A i \in 1..Len(unprocessedFrames) : \A j \in 1..Len(unprocessedFrames) :
         i # j => unprocessedFrames[i].id # unprocessedFrames[j].id
    /\ \A v \in Workers : \A w \in Workers :
         (v # w /\ frame[v] # NoFrame) => frame[v].id # frame[w].id
    /\ \A w \in Workers : frame[w].id \notin QueuedIds
    /\ \A k \in 1..Len(processedFrameData) :
         processedFrameData[k].timestamp \notin QueuedIds

\* Two workers hold frames at once, popped one after the other, while
\* another frame waits on the queue.
C4_Witness ==
    /\ \A w \in Workers : workerPc[w] = "process" /\ frame[w] # NoFrame
    /\ unprocessedFrames # <<>>

(* ---- C5 ---- *)

\* C5: the queue never holds more than MaxUnprocessedFrameCount frames.
C5_QueueBounded == Len(unprocessedFrames) <= MaxUnprocessedFrameCount

(* ---- C6 ---- *)

\* C6: a stalled producer enqueues nothing, the stall ends (main gets past
\* the size check) under fair scheduling, and the queue is at all times the
\* tail end of the decoded stream: every decoded frame was enqueued once,
\* none was lost or duplicated.
C6_StallEndsNoLoss ==
    /\ (mainPc = "sleep") ~> (mainPc = "read")
    /\ [][mainPc = "sleep" =>
            Len(unprocessedFrames') <= Len(unprocessedFrames)]_vars
    /\ [](\E k \in 0..Len(decoded) :
            unprocessedFrames = SubSeq(decoded, k + 1, Len(decoded)))

\* The producer is stalled on a queue it found full, and a worker has since
\* taken a frame: the next size check lets the producer through.
C6_Witness ==
    /\ mainPc = "sleep"
    /\ unprocessedFrameCount >= MaxUnprocessedFrameCount
    /\ Len(unprocessedFrames) < MaxUnprocessedFrameCount
    /\ \E w \in Workers : workerPc[w] = "process"

(* ---- C7 ---- *)

\* C7: processedFrameData holds at most one fingerprint per frameNumber and
\* its traversal is strictly increasing in frameNumber.
C7_StrictlyIncreasing ==
    \A i \in 1..Len(processedFrameData) : \A j \in 1..Len(processedFrameData) :
        i < j =>
            processedFrameData[i].frameNumber < processedFrameData[j].frameNumber

\* Every decoded frame has been analyzed and inserted, two of them with the
\* same frameNumber, and the set holds at least two fingerprints.
C7_Witness ==
    /\ Len(processedFrameData) >= 2
    /\ \A w \in Workers : workerPc[w] # "process" /\ frame[w] = NoFrame
    /\ unprocessedFrames = <<>>
    /\ NoFrameFailure
    /\ ~DistinctIncreasing(decoded)

(* ---- C8 ---- *)

\* C8: an insert of a fingerprint whose frameNumber is already stored
\* leaves the set unchanged and surfaces an error.
C8_DuplicateIsAnError ==
    [][\A w \in Workers :
         ( /\ workerPc[w] = "process"
           /\ workerPc'[w] = "check"
           /\ <<"alloc", frame[w].id>> \notin errors'
           /\ \E k \in 1..Len(processedFrameData) :
                Equivalent(processedFrameData[k], Analysis(frame[w])) )
         => (processedFrameData' = processedFrameData /\ errors' # errors)]_vars

(* ---- C9 ---- *)

\* C9: the CSV is written only after processingComplete is set and every
\* worker is joined; after a read or decode failure main ends with a
\* nonzero status and nothing is ever written to the CSV.
C9_OutputOnlyFromComplete ==
    /\ []((csv # <<>> \/ Complete) =>
            (processingComplete /\ \A w \in Workers : workerPc[w] = "done"))
    /\ [](mainPc = "aborted" => (exitStatus = "nonzero" /\ csv = <<>>))
    /\ [][(mainPc = "return" \/ mainPc = "aborted") =>
            (mainPc' \in {"return", "aborted"} /\ csv' = <<>>)]_vars

\* The run was aborted with fingerprints already in the set.
C9_Witness ==
    /\ mainPc = "aborted"
    /\ processedFrameData # <<>>

(* ---- C10 ---- *)

\* C10: for a stream without failures the rows written are those of the
\* sequential run over the same stream, whatever the interleaving.
C10_SameRowsEveryRun ==
    (mainPc = "done" /\ errors = {}) =>
        csv = Rows(InsertAll(<<>>, decoded))

(* ---- C11 ---- *)

\* C11: for an even number n of pixels median() returns (m + L) / 2, with m
\* the element of rank n/2 and L the largest of the elements at indices
\* 0 .. n/2 - 1, whatever arrangement nth_element left.
C11_EvenMedian ==
    (medianPc = "done" /\ Len(pixels) % 2 = 0) =>
        LET middle == Middle(Len(pixels))
            L == CHOOSE a \in {At(pixels, i) : i \in 0..(middle - 1)} :
                   \A i \in 0..(middle - 1) : At(pixels, i) <= a
        IN  medianResult = At(pixels, middle) + L

(* ---- C12 ---- *)

\* The cell of row band r and column band c (both from 0), row-major.
CellAt(r, c) == cells[r * HorizontalCellCount + c + 1]

RECURSIVE SumOf(_, _)
\* f[0] + ... + f[n - 1].
SumOf(f, n) == IF n = 0 THEN 0 ELSE f[n - 1] + SumOf(f, n - 1)

\* C12: for W >= C and H >= R the recurrence yields R*C cells, the row-band
\* heights sum to H, the column-band widths of every row sum to W, and
\* every band starts where the one before it ended.
C12_CellsTileImage ==
    gridPc = "done" =>
        /\ Len(cells) = VerticalCellCount * HorizontalCellCount
        /\ SumOf([r \in 0..(VerticalCellCount - 1) |-> CellAt(r, 0).yPixels],
                 VerticalCellCount) = height
        /\ \A r \in 0..(VerticalCellCount - 1) :
             /\ SumOf([c \in 0..(HorizontalCellCount - 1) |->
                          CellAt(r, c).xPixels], HorizontalCellCount) = width
             /\ CellAt(r, 0).xOffset = 0
             /\ \A c \in 1..(HorizontalCellCount - 1) :
                  /\ CellAt(r, c).xOffset =
                       CellAt(r, c - 1).xOffset + CellAt(r, c - 1).xPixels
                  /\ CellAt(r, c).yOffset = CellAt(r, 0).yOffset
                  /\ CellAt(r, c).yPixels = CellAt(r, 0).yPixels
        /\ CellAt(0, 0).yOffset = 0
        /\ \A r \in 1..(VerticalCellCount - 1) :
             CellAt(r, 0).yOffset =
                 CellAt(r - 1, 0).yOffset + CellAt(r - 1, 0).yPixels

\* All cells of a frame that neither dimension of the grid divides are done.
C12_Witness ==
    /\ gridPc = "done"
    /\ width % HorizontalCellCount # 0
    /\ height % VerticalCellCount # 0
    /\ Len(cells) = VerticalCellCount * HorizontalCellCount

(* ---- C20 ---- *)

\* C20: what remains is at least the number of bands left before every
\* division, every band has at least one pixel, and so every cell given to
\* median() has n >= 1 pixels, its middle index is inside the vector and
\* the range of max_element does not start after its end.
C20_BandsNotEmpty ==
    /\ (gridPc = "row" /\ y < VerticalCellCount) =>
           remainingHeight >= VerticalCellCount - y
    /\ (gridPc = "column" /\ x < HorizontalCellCount) =>
           remainingWidth >= HorizontalCellCount - x
    /\ \A i \in 1..Len(cells) :
         LET n == cells[i].xPixels * cells[i].yPixels
         IN  /\ cells[i].xPixels >= 1
             /\ cells[i].yPixels >= 1
             /\ Middle(n) \in 0..(n - 1)
             /\ (n % 2 = 0) => Middle(n) - 1 \in 0..(n - 1)

\* A frame as small as the grid allows in one dimension: cells of one pixel
\* in width next to taller ones, all done.
C20_Witness ==
    /\ gridPc = "done"
    /\ width = HorizontalCellCount
    /\ height > VerticalCellCount
    /\ \E i \in 1..Len(cells) : cells[i].xPixels * cells[i].yPixels = 1
    /\ \E i \in 1..Len(cells) : cells[i].xPixels * cells[i].yPixels > 1

(* ---- C13 ---- *)

\* C13: with a width below the horizontal or a height below the vertical
\* cell count no worker thread is started, no frame is decoded or queued,
\* no fingerprint is stored, nothing is written to the CSV, and main does
\* not get past its start-up.
C13_TooSmallNothingRuns ==
    (width < HorizontalCellCount \/ height < VerticalCellCount) =>
        /\ \A w \in Workers : workerPc[w] = "notStarted"
        /\ decoded = <<>>
        /\ unprocessedFrames = <<>>
        /\ processedFrameData = <<>>
        /\ csv = <<>>
        /\ mainPc \in {"start", "return", "aborted"}
        /\ exitStatus # "zero"

\* A stream wide enough but not high enough has been refused.
C13_Witness ==
    /\ mainPc = "aborted"
    /\ width >= HorizontalCellCount
    /\ height < VerticalCellCount
    /\ <<"dimensions", 0>> \in errors

(* ---- C14 ---- *)

\* C14: once processingComplete is true it stays true, and no frame is
\* decoded or pushed on the queue any more.
C14_NoPushAfterComplete ==
    [][processingComplete =>
         /\ processingComplete'
         /\ decoded' = decoded
         /\ Len(unprocessedFrames') <= Len(unprocessedFrames)]_vars

\* The flag is set, a worker has taken a frame off the queue since, and
\* frames are still queued.
C14_Witness ==
    /\ processingComplete
    /\ unprocessedFrames # <<>>
    /\ \E w \in Workers : popsAfterComplete[w] > 0

(* ---- C15 ---- *)

\* C15: the step in which av_image_alloc fails for a worker's frame stores
\* nothing, leaves the worker in its loop and touches neither main, the
\* queue nor the other workers; a frame that failed never has a fingerprint.
C15_AllocFailureIsLocal ==
    /\ [][\A w \in Workers :
            ( /\ frame[w] # NoFrame
              /\ <<"alloc", frame[w].id>> \notin errors
              /\ <<"alloc", frame[w].id>> \in errors' )
            => /\ processedFrameData' = processedFrameData
               /\ workerPc'[w] = "check"
               /\ \A u \in Workers \ {w} :
                    workerPc'[u] = workerPc[u] /\ frame'[u] = frame[u]
               /\ mainPc' = mainPc
               /\ exitStatus' = exitStatus
               /\ unprocessedFrames' = unprocessedFrames]_vars
    /\ [](\A e \in errors : e[1] = "alloc" =>
            \A k \in 1..Len(processedFrameData) :
                processedFrameData[k].timestamp # e[2])

\* The first frame failed, the frames after it were fingerprinted and
\* their rows written.
C15_Witness ==
    /\ mainPc = "done"
    /\ <<"alloc", 1>> \in errors
    /\ Len(decoded) >= 3
    /\ Len(csv) >= 2

(* ---- C16 ---- *)

\* C16: the queue mutex is held only at the size check, the push and the
\* pop, and the aggregate mutex only at the insert; a thread that converts
\* a frame or extracts its cells holds no mutex; no thread holds two
\* mutexes; and while the process has not ended some thread can take a step.
C16_LockDiscipline ==
    /\ \A t \in Threads :
         /\ mutexOwner["unprocessedFramesMutex"] = t
              => stage[t] \in {"size", "push", "pop"}
         /\ mutexOwner["processedFrameDataMutex"] = t => stage[t] = "insert"
         /\ mutexOwner["loggingMutex"] = t => stage[t] \in LogStages
         /\ stage[t] \in {"convert", "extract"} => Held(t) = {}
         /\ Cardinality(Held(t)) <= 1
    /\ ~Ended => ENABLED LockNext

\* All three mutexes are held at once, by three threads: main is pushing a
\* frame, one worker is inserting a fingerprint, the other is logging.
C16_Witness ==
    /\ mutexOwner["unprocessedFramesMutex"] = MainThread
    /\ stage[MainThread] = "push"
    /\ \E v \in Workers : \E w \in Workers :
         /\ mutexOwner["processedFrameDataMutex"] = v
         /\ stage[v] = "insert"
         /\ mutexOwner["loggingMutex"] = w
         /\ stage[w] = "keyframeLog"

(* ---- C17 ---- *)

\* C17: the queue changes only by a frame appended at the back, the newest
\* decoded one, or by the front frame going to a worker; the frame a worker
\* takes is the oldest one no worker has taken yet.
C17_Fifo ==
    [][unprocessedFrames' # unprocessedFrames =>
         \/ /\ Len(unprocessedFrames') = Len(unprocessedFrames) + 1
            /\ SubSeq(unprocessedFrames', 1, Len(unprocessedFrames))
                 = unprocessedFrames
            /\ unprocessedFrames'[Len(unprocessedFrames')]
                 = decoded'[Len(decoded')]
         \/ /\ unprocessedFrames # <<>>
            /\ unprocessedFrames' = Tail(unprocessedFrames)
            /\ \E w \in Workers :
                 /\ frame'[w] = Head(unprocessedFrames)
                 /\ frame'[w].id = Len(decoded) - Len(unprocessedFrames) + 1
                 /\ \A u \in Workers \ {w} : frame'[u] = frame[u]]_vars

\* A worker holds the frame it took from the front of a queue of three; the
\* two that came after it wait in their order.
C17_Witness ==
    /\ Len(unprocessedFrames) >= 2
    /\ \E w \in Workers :
         /\ workerPc[w] = "process"
         /\ frame[w].id + 1 = unprocessedFrames[1].id
         /\ frame[w].id + 2 = unprocessedFrames[2].id

(* ---- C18 ---- *)

\* C18: after processingComplete is set no worker takes more than one frame
\* off the queue, so at most threadCount frames are taken in all.
C18_OnePopAfterComplete ==
    /\ \A w \in Workers : popsAfterComplete[w] <= 1
    /\ SumOf([i \in 0..(threadCount - 1) |-> popsAfterComplete[i + 1]],
             threadCount) <= threadCount

\* A worker has taken one frame after the flag was set and has returned
\* with a frame still on the queue.
C18_Witness ==
    /\ unprocessedFrames # <<>>
    /\ \E w \in Workers : workerPc[w] = "done" /\ popsAfterComplete[w] = 1

(* ---- C19 ---- *)

\* C19: once the decoder has reported the end of the stream, the flag gets
\* set, every worker returns, the joins complete and main writes the CSV
\* and ends, whatever is on the queue.
C19_Terminates ==
    (mainPc = "setComplete") ~>
        ( /\ mainPc = "done"
          /\ processingComplete
          /\ \A w \in Workers : workerPc[w] = "done" )

\* The run has ended after the joins with a frame left on the queue.
C19_Witness ==
    /\ mainPc = "done"
    /\ unprocessedFrames # <<>>
    /\ \A w \in Workers : workerPc[w] = "done"

TypeOK ==
    /\ processingComplete \in BOOLEAN
    /\ Len(decoded) <= MaxFrames
    /\ mainPc \in {"start", "check", "sleep", "read", "receive", "setComplete", "join",
                   "output", "done", "return", "aborted"}
    /\ \A w \in Workers : workerPc[w] \in {"notStarted", "pop", "process", "check", "done"}
    /\ exitStatus \in {"running", "zero", "nonzero"}
====
